---- MODULE Spec2Model ----
(***************************************************************************)
(* Claude Monitor: the ingestion pipeline (data/reader.py) and the usage   *)
(* log writer (data/writer.py).                                            *)
(*                                                                         *)
(* Strings that the code concatenates, splits or measures (ids, keywords,  *)
(* texts) are sequences of one-character strings.  A key that is absent    *)
(* from a JSON object and a key that holds the empty string are both the   *)
(* empty sequence: every place the code reads them tests truthiness only.  *)
(* Timestamps are whole hours since an epoch.                              *)
(***************************************************************************)
EXTENDS Integers, Sequences, FiniteSets, TLC

VARIABLES
    \* ---- reader: load_usage_entries ----
    files,             \* the discovered *.jsonl files, in discovery order; each a sequence of lines
    hours_back,        \* argument of load_usage_entries (0 stands for None and for 0)
    include_raw,       \* argument of load_usage_entries
    rpc,               \* position of load_usage_entries: "start", "files", "sort", "done"
    cutoff_time,       \* [set |-> BOOLEAN, t |-> hour]
    file_idx,          \* index of the next file of the for loop (reader.py:61)
    all_entries,       \* reader.py:57
    raw_entries,       \* reader.py:58 ([set |-> FALSE] is None)
    processed_hashes,  \* reader.py:59
    failed_files,      \* indices of the files whose processing ended in the except of reader.py:186
    \* ---- writer: log_usage_entry and add_keyword_to_existing_entry ----
    dirs,              \* dirs[i]: the parent directory of USAGE_PATHS[i] exists
    disk,              \* disk[i]: [exists |-> BOOLEAN, lines |-> Seq(line)] the file USAGE_PATHS[i]
    app,               \* the log_usage_entry call: [pc, log_path, entry, path, result]
    pat,               \* the add_keyword_to_existing_entry call: [pc, message_id, keyword, path, lines, found, pos, result]
    hist,              \* history: [before |-> the disk when the patch was called, appended |-> the append wrote its line]
    \* ---- monitor_ui: the recent-messages overlay ----
    last_n_display,    \* monitor_ui.py:37, set by the key listener
    stop_listen,       \* monitor_ui.py:38
    overlay            \* render_overlay: [pc, empty, slice, n_slice, n_start, recent |-> Seq([idx, e])]

rvars == <<files, hours_back, include_raw, rpc, cutoff_time, file_idx,
           all_entries, raw_entries, processed_hashes, failed_files>>
wvars == <<dirs, disk, app, pat, hist>>
uvars == <<last_n_display, stop_listen, overlay>>
vars == <<rvars, wvars, uvars>>

(***************************************************************************)
(* Bounds of the model.                                                    *)
(***************************************************************************)
MaxFiles == 2        \* files discovered by one run
MaxLines == 2        \* lines over all the files of one run
MaxHoursBack == 2    \* hours_back ranges over 0..MaxHoursBack
Now == 5             \* datetime.now(tz.utc), in hours
MaxLogLines == 2     \* lines of a usage log before the writer's calls start

(***************************************************************************)
(* Strings.                                                                *)
(***************************************************************************)
EmptyStr == <<>>
Truthy(s) == s # EmptyStr

Min(S) == CHOOSE x \in S : \A y \in S : x <= y

\* str.strip().split(): the maximal runs of non-blank characters, from
\* position i on
RECURSIVE SplitFrom(_, _)
SplitFrom(s, i) ==
    LET starts == {j \in i..Len(s) : s[j] # " "}
    IN  IF starts = {} THEN <<>>
        ELSE LET b == Min(starts)
                 ends == {j \in b..Len(s) : s[j] = " "}
                 e == IF ends = {} THEN Len(s) + 1 ELSE Min(ends)
             IN  <<SubSeq(s, b, e - 1)>> \o SplitFrom(s, e)
Split(s) == SplitFrom(s, 1)

\* " ".join(words)
RECURSIVE Join(_)
Join(words) ==
    IF words = <<>> THEN <<>>
    ELSE IF Len(words) = 1 THEN words[1]
    ELSE words[1] \o <<" ">> \o Join(Tail(words))

Take(s, n) == IF Len(s) <= n THEN s ELSE SubSeq(s, 1, n)

(***************************************************************************)
(* One line of a log file.  kind: "blank" (whitespace only), "garbage"     *)
(* (json.loads raises JSONDecodeError), "nonobject" (valid JSON that is    *)
(* not an object: a number, a list, a string, null), "object".  fmt tells  *)
(* whether the bytes of the line are what json.dumps writes ("dumps") or   *)
(* another formatting of the same value ("other").                         *)
(***************************************************************************)
NoTs == [form |-> "absent", t |-> 0]
Iso(t) == [form |-> "iso", t |-> t]
BadTs == [form |-> "bad", t |-> 0]

NoContent == [shape |-> "str", text |-> EmptyStr, blocks |-> <<>>]
StrContent(s) == [shape |-> "str", text |-> s, blocks |-> <<>>]
ListContent(bs) == [shape |-> "list", text |-> EmptyStr, blocks |-> bs]

NoMessage == [shape |-> "absent", id |-> EmptyStr, content |-> NoContent]
NonDictMessage == [shape |-> "nondict", id |-> EmptyStr, content |-> NoContent]
DictMessage(id, content) == [shape |-> "dict", id |-> id, content |-> content]

Unhashable == <<"[", "]">>   \* a parentUuid / uuid that is a JSON list

Obj == [kind |-> "object", fmt |-> "dumps", type |-> "", uuid |-> EmptyStr,
        parentUuid |-> EmptyStr, message |-> NoMessage, message_id |-> EmptyStr,
        requestId |-> EmptyStr, request_id |-> EmptyStr, timestamp |-> NoTs,
        tokShape |-> "absent", tokens |-> <<0, 0, 0, 0>>, model |-> EmptyStr,
        keyword |-> EmptyStr, user_text |-> EmptyStr]
BlankLine == [Obj EXCEPT !.kind = "blank", !.fmt = "other"]
GarbageLine == [Obj EXCEPT !.kind = "garbage", !.fmt = "other"]
NonObjectLine == [Obj EXCEPT !.kind = "nonobject", !.fmt = "other"]

(***************************************************************************)
(* Collaborators of the reader that live in claude_monitor.core            *)
(* (data_processors), modelled from their contracts.                       *)
(***************************************************************************)
NoTime == [ok |-> FALSE, t |-> 0]

\* TimestampProcessor.parse_timestamp: an ISO-8601-like string, with a Z
\* suffix, an offset or none (then UTC), gives its instant; anything else
\* (absent, empty, unparseable) gives nothing and never raises.
parse_timestamp(ts) ==
    IF ts.form \in {"iso", "isoZ", "naive"} THEN [ok |-> TRUE, t |-> ts.t] ELSE NoTime

\* TokenExtractor.extract_tokens: the four counts, from the flat fields or
\* from the nested usage object alike, each 0 when absent; never raises.
extract_tokens(data) ==
    IF data.tokShape \in {"flat", "nested"} THEN data.tokens ELSE <<0, 0, 0, 0>>

Unknown == <<"u", "n", "k", "n", "o", "w", "n">>

\* DataConverter.extract_model_name(data, default="unknown")
extract_model_name(data) == IF Truthy(data.model) THEN data.model ELSE Unknown

(***************************************************************************)
(* reader.py: deduplication key and the combined filter.                   *)
(***************************************************************************)
NoHash == <<>>

_create_unique_hash(data) ==
    LET message_id == IF Truthy(data.message_id) THEN data.message_id
                      ELSE IF data.message.shape = "dict" THEN data.message.id
                      ELSE EmptyStr
        request_id == IF Truthy(data.requestId) THEN data.requestId ELSE data.request_id
    IN  IF Truthy(message_id) /\ Truthy(request_id)
        THEN message_id \o <<":">> \o request_id
        ELSE NoHash

_should_process_entry(data, cutoff, hashes) ==
    LET ts == parse_timestamp(data.timestamp)
        old == /\ cutoff.set
               /\ data.timestamp.form # "absent"
               /\ ts.ok
               /\ ts.t < cutoff.t
        unique_hash == _create_unique_hash(data)
    IN  IF old THEN FALSE
        ELSE ~(unique_hash # NoHash /\ unique_hash \in hashes)

_update_processed_hashes(data, hashes) ==
    LET unique_hash == _create_unique_hash(data)
    IN  IF unique_hash # NoHash THEN hashes \cup {unique_hash} ELSE hashes

(***************************************************************************)
(* reader.py: mapping a raw record to a UsageEntry.                        *)
(***************************************************************************)
\* the text of a message content: a plain string, or the text of the first
\* text-typed block of a list (reader.py:150-157 and 275-283)
RECURSIVE FirstTextBlock(_)
FirstTextBlock(blocks) ==
    IF blocks = <<>> THEN EmptyStr
    ELSE IF blocks[1].type = "text" THEN blocks[1].text
    ELSE FirstTextBlock(Tail(blocks))

ContentText(content) ==
    IF content.shape = "str" THEN content.text
    ELSE IF content.shape = "list" THEN FirstTextBlock(content.blocks)
    ELSE EmptyStr

\* the first five words taken whatever the number of words
DeriveKeywordFiveWords(text) ==
    LET words == Split(text)
        kw == Join(Take(words, 5))
    IN  IF Len(kw) > 40 THEN SubSeq(kw, 1, 37) \o <<".", ".", ".">> ELSE kw

\* reader.py:285-290
DeriveKeyword(text) ==
    LET words == Split(text)
        kw == IF Len(words) <= 5 THEN Join(Take(words, 5)) ELSE Join(Take(words, 3))
    IN  IF Len(kw) > 40 THEN SubSeq(kw, 1, 37) \o <<".", ".", ".">> ELSE kw

NoEntry == [ok |-> FALSE]

\* the token test left out: every record counts as billable
HasTokensAlways(tok) == TRUE

\* the token test of reader.py:250
HasTokens(tok) == \E i \in 1..4 : tok[i] # 0

_map_to_usage_entry(data) ==
    LET ts == parse_timestamp(data.timestamp)
        tok == extract_tokens(data)
        message == data.message
        \* message.get on a message that is no mapping raises AttributeError,
        \* caught at reader.py:311
        idRaises == ~Truthy(data.message_id) /\ message.shape = "nondict"
        message_id == IF Truthy(data.message_id) THEN data.message_id ELSE message.id
        request_id == IF Truthy(data.request_id) THEN data.request_id
                      ELSE IF Truthy(data.requestId) THEN data.requestId
                      ELSE Unknown
        textRaises == ~Truthy(data.user_text) /\ message.shape = "nondict"
        text == IF Truthy(data.user_text) THEN data.user_text
                ELSE ContentText(message.content)
        keyword == IF ~Truthy(data.keyword) /\ Truthy(text)
                   THEN DeriveKeyword(text) ELSE data.keyword
    IN  IF ~ts.ok THEN NoEntry
        ELSE IF ~HasTokens(tok) THEN NoEntry
        ELSE IF idRaises \/ textRaises THEN NoEntry
        ELSE [ok |-> TRUE,
              timestamp |-> ts.t,
              input_tokens |-> tok[1],
              output_tokens |-> tok[2],
              cache_creation_tokens |-> tok[3],
              cache_read_tokens |-> tok[4],
              model |-> extract_model_name(data),
              message_id |-> message_id,
              request_id |-> request_id,
              keyword |-> keyword,
              text |-> text]

(***************************************************************************)
(* reader.py: _process_single_file, its two passes.                        *)
(***************************************************************************)
EmptyMap == [u \in {} |-> EmptyStr]
Put(m, k, v) == [u \in DOMAIN m \cup {k} |-> IF u = k THEN v ELSE m[u]]

\* First pass (reader.py:134-163) from line i on.  st = [failed, all_lines,
\* user_messages].  Only JSONDecodeError is caught per line: any other
\* exception leaves the with block and reaches reader.py:186.
RECURSIVE FirstPass(_, _, _)
FirstPass(lines, i, st) ==
    IF i > Len(lines) \/ st.failed THEN st
    ELSE LET line == lines[i]
             text == ContentText(line.message.content)
         IN  IF line.kind \in {"blank", "garbage"} THEN FirstPass(lines, i + 1, st)
             ELSE IF line.kind = "nonobject"
                  \* data.get on a value that is no dict: AttributeError
                  THEN [st EXCEPT !.failed = TRUE]
             ELSE LET st1 == [st EXCEPT !.all_lines = Append(@, line)]
                  IN  IF line.type # "user" THEN FirstPass(lines, i + 1, st1)
                      ELSE IF line.message.shape = "nondict"
                           THEN [st1 EXCEPT !.failed = TRUE]
                      ELSE IF Truthy(line.uuid) /\ Truthy(text)
                           THEN IF line.uuid = Unhashable
                                THEN [st1 EXCEPT !.failed = TRUE]
                                ELSE FirstPass(lines, i + 1,
                                        [st1 EXCEPT !.user_messages = Put(@, line.uuid, text)])
                      ELSE FirstPass(lines, i + 1, st1)

\* the table kept from file to file: what the first passes of the files read
\* before this one have stored is still there
RECURSIVE user_messages_so_far(_)
user_messages_so_far(k) ==
    IF k = 0 THEN EmptyMap
    ELSE FirstPass(files[k], 1, [failed |-> FALSE, all_lines |-> <<>>,
                                 user_messages |-> user_messages_so_far(k - 1)]).user_messages

first_pass_shared_table(lines) ==
    FirstPass(lines, 1, [failed |-> FALSE, all_lines |-> <<>>,
                         user_messages |-> user_messages_so_far(file_idx - 1)])

\* reader.py:130-163: all_lines and user_messages start empty for each file
first_pass(lines) ==
    FirstPass(lines, 1, [failed |-> FALSE, all_lines |-> <<>>, user_messages |-> EmptyMap])

\* the link left out: the record keeps what it carried
link_user_text_never(data, user_messages) == data

\* reader.py:172-175: an assistant record whose parentUuid is a key of this
\* file's user_messages gets that text as _user_text
link_user_text(data, user_messages) ==
    IF /\ data.type = "assistant"
       /\ Truthy(data.parentUuid)
       /\ data.parentUuid \in DOMAIN user_messages
    THEN [data EXCEPT !.user_text = user_messages[data.parentUuid]]
    ELSE data

\* the raw record put in front of the list instead of at its end
append_raw_in_front(raw_data, data, with_raw) ==
    IF with_raw THEN <<data>> \o raw_data ELSE raw_data

\* reader.py:181-182: every record that passed the filter is kept, mapped or not
append_raw(raw_data, data, with_raw) ==
    IF with_raw THEN Append(raw_data, data) ELSE raw_data

\* Second pass (reader.py:166-184) from record i on.  st = [failed, entries,
\* raw_data, hashes]; hashes is the set shared by all files, updated in place.
RECURSIVE SecondPass(_, _, _, _, _, _)
SecondPass(all_lines, user_messages, cutoff, with_raw, i, st) ==
    IF i > Len(all_lines) \/ st.failed THEN st
    ELSE LET data == all_lines[i]
         IN  IF ~_should_process_entry(data, cutoff, st.hashes)
             THEN SecondPass(all_lines, user_messages, cutoff, with_raw, i + 1, st)
             ELSE IF data.type = "assistant" /\ data.parentUuid = Unhashable
                  \* parent_uuid in user_messages: TypeError, unhashable
                  THEN [st EXCEPT !.failed = TRUE]
             ELSE LET linked == link_user_text(data, user_messages)
                      entry == _map_to_usage_entry(linked)
                      st1 == IF entry.ok
                             THEN [st EXCEPT !.entries = Append(@, entry),
                                             !.hashes = _update_processed_hashes(linked, @)]
                             ELSE st
                      st2 == [st1 EXCEPT !.raw_data = append_raw(@, linked, with_raw)]
                  IN  SecondPass(all_lines, user_messages, cutoff, with_raw, i + 1, st2)

\* _process_single_file: [failed, entries, raw_data, hashes].  On an
\* exception it returns ([], None); what it had added to the shared set stays.
_process_single_file(lines, cutoff, hashes, with_raw) ==
    LET p1 == first_pass(lines)
        p2 == SecondPass(p1.all_lines, p1.user_messages, cutoff, with_raw, 1,
                         [failed |-> FALSE, entries |-> <<>>, raw_data |-> <<>>,
                          hashes |-> hashes])
    IN  IF p1.failed
        THEN [failed |-> TRUE, entries |-> <<>>, raw_data |-> <<>>, hashes |-> hashes]
        ELSE IF p2.failed
        THEN [failed |-> TRUE, entries |-> <<>>, raw_data |-> <<>>, hashes |-> p2.hashes]
        ELSE p2

\* list.sort(key=lambda e: e.timestamp): stable, ascending (reader.py:75)
RECURSIVE InsertByTimestamp(_, _)
InsertByTimestamp(sorted, e) ==
    IF sorted = <<>> THEN <<e>>
    ELSE IF sorted[Len(sorted)].timestamp <= e.timestamp THEN Append(sorted, e)
    ELSE Append(InsertByTimestamp(SubSeq(sorted, 1, Len(sorted) - 1), e), sorted[Len(sorted)])

RECURSIVE SortByTimestamp(_)
SortByTimestamp(es) ==
    IF es = <<>> THEN <<>>
    ELSE InsertByTimestamp(SortByTimestamp(SubSeq(es, 1, Len(es) - 1)), es[Len(es)])

(***************************************************************************)
(* Inputs of the reader: the lines a log file may hold.                    *)
(***************************************************************************)
IdM == <<"m">>
IdA == <<"A">>
IdB == <<"B">>
IdC == <<"C">>
IdU == <<"u">>
TextHi == <<"h", "i", " ", "y", "o", "u">>

\* assistant record, both spellings of the request id, top-level message id
RecBoth1 == [Obj EXCEPT !.type = "assistant", !.message_id = IdM, !.requestId = IdA,
                        !.request_id = IdB, !.timestamp = Iso(Now - 1),
                        !.tokShape = "flat", !.tokens = <<1, 0, 0, 0>>]
RecBoth2 == [Obj EXCEPT !.type = "assistant", !.message_id = IdM, !.requestId = IdC,
                        !.request_id = IdB, !.timestamp = Iso(Now - MaxHoursBack),
                        !.tokShape = "nested", !.tokens = <<0, 2, 0, 0>>]
\* assistant record, nested message id, snake-case request id, older than every cutoff
RecNested == [Obj EXCEPT !.type = "assistant", !.message = DictMessage(IdM, StrContent(TextHi)),
                         !.request_id = IdA, !.timestamp = Iso(Now - MaxHoursBack - 1),
                         !.tokShape = "flat", !.tokens = <<0, 0, 1, 0>>, !.fmt = "other"]
\* a non-billable record: every token count is zero
RecZero == [Obj EXCEPT !.message_id = IdM, !.request_id = IdB, !.timestamp = Iso(Now),
                       !.tokShape = "flat"]
\* a user record with text, and an assistant record that refers to it
RecUser == [Obj EXCEPT !.type = "user", !.uuid = IdU,
                       !.message = DictMessage(EmptyStr, ListContent(<<[type |-> "text", text |-> TextHi]>>)),
                       !.timestamp = Iso(Now - 1)]
RecChild == [Obj EXCEPT !.type = "assistant", !.parentUuid = IdU,
                        !.timestamp = Iso(Now - 2), !.tokShape = "nested",
                        !.tokens = <<1, 1, 0, 1>>]
\* a user record whose message is not a mapping
RecUserBad == [Obj EXCEPT !.type = "user", !.uuid = IdU, !.message = NonDictMessage,
                          !.timestamp = Iso(Now)]
\* a billable record whose timestamp does not parse
RecBadTs == [Obj EXCEPT !.message_id = IdM, !.request_id = IdC, !.timestamp = BadTs,
                        !.tokShape = "flat", !.tokens = <<1, 0, 0, 0>>]
\* an assistant record whose parentUuid is a list
RecBadParent == [Obj EXCEPT !.type = "assistant", !.parentUuid = Unhashable,
                            !.timestamp = Iso(Now), !.tokShape = "flat",
                            !.tokens = <<1, 0, 0, 0>>]

ReaderLines == {RecBoth1, RecBoth2, RecNested, RecZero, RecUser, RecChild,
                RecUserBad, RecBadTs, RecBadParent, GarbageLine, NonObjectLine}

SeqsUpTo(S, n) == UNION {[1..k -> S] : k \in 0..n}

\* the ways to cut a sequence of lines into k files: k-1 cut points, ascending
Cuts(n, k) == {c \in [1..(k - 1) -> 0..n] : \A i \in 1..(k - 2) : c[i] <= c[i + 1]}
Piece(flat, c, k, j) ==
    LET lo == IF j = 1 THEN 0 ELSE c[j - 1]
        hi == IF j = k THEN Len(flat) ELSE c[j]
    IN  SubSeq(flat, lo + 1, hi)
FileSetsOf(S, n) ==
    {<<>>} \cup
    {[j \in 1..e[2] |-> Piece(e[1], e[3], e[2], j)] :
        e \in {t \in SeqsUpTo(S, n) \X (1..MaxFiles) \X SeqsUpTo(0..n, MaxFiles - 1) :
                  t[3] \in Cuts(Len(t[1]), t[2])}}
FileSets == FileSetsOf(ReaderLines, MaxLines)

(***************************************************************************)
(* Inputs for the linking, the raw capture and the deduplication across    *)
(* files: conversations of up to MaxLinkLines lines.                       *)
(***************************************************************************)
MaxLinkLines == 3

TextOwn == <<"o", "w", "n">>

\* assistant records that refer to the user record u and carry a text of
\* their own; the second one carries an explicit keyword too
RecChildOwn == [RecChild EXCEPT !.message = DictMessage(EmptyStr, StrContent(TextOwn))]
RecChildKw == [RecChildOwn EXCEPT !.keyword = <<"k", "w">>, !.tokens = <<2, 0, 0, 0>>]
\* three records that carry the pair (m, A): one that does not map (all
\* counts zero), one older than every cutoff, one recent
RecZeroP == [Obj EXCEPT !.type = "assistant", !.message_id = IdM, !.request_id = IdA,
                        !.timestamp = Iso(Now), !.tokShape = "flat"]
RecValidP1 == [RecZeroP EXCEPT !.timestamp = Iso(Now - MaxHoursBack - 1),
                               !.tokens = <<1, 0, 0, 0>>]
RecValidP2 == [RecZeroP EXCEPT !.timestamp = Iso(Now - 1), !.tokens = <<0, 2, 0, 0>>]

LinkLines == {RecUser, RecChildOwn, RecChildKw, RecZeroP, RecValidP1,
              RecValidP2, RecBadParent}

(***************************************************************************)
(* Inputs for the dedup key: ids that contain the ':' that joins them.     *)
(***************************************************************************)
IdMColonA == <<"m", ":", "A">>
IdAColonB == <<"A", ":", "B">>

\* message_id "m:A" with request_id "B", and message_id "m" with request_id
\* "A:B": two identities; and a record with plain ids
RecColonLeft == [Obj EXCEPT !.type = "assistant", !.message_id = IdMColonA,
                            !.request_id = IdB, !.timestamp = Iso(Now - 1),
                            !.tokShape = "flat", !.tokens = <<1, 0, 0, 0>>]
RecColonRight == [Obj EXCEPT !.type = "assistant", !.message_id = IdM,
                             !.request_id = IdAColonB, !.timestamp = Iso(Now),
                             !.tokShape = "flat", !.tokens = <<0, 2, 0, 0>>]
RecPlain == [Obj EXCEPT !.type = "assistant", !.message_id = IdM, !.request_id = IdB,
                        !.timestamp = Iso(Now), !.tokShape = "flat",
                        !.tokens = <<0, 0, 1, 0>>]

KeyLines == {RecColonLeft, RecColonRight, RecPlain, GarbageLine}

(***************************************************************************)
(* Inputs for the keyword: texts of up to MaxWords words, the words all of *)
(* one length, separated by one space or by two (then with a space in      *)
(* front and one behind as well).                                          *)
(***************************************************************************)
MaxWords == 7
WordLens == {1, 9, 13, 40}
Letters == <<"a", "b", "c", "d", "e", "f", "g", "h", "i", "j">>

Word(i, len) == [k \in 1..len |-> Letters[i]]
Spaces(n) == [k \in 1..n |-> " "]

RECURSIVE WordsFrom(_, _, _, _)
WordsFrom(i, n, len, sp) ==
    IF i > n THEN <<>>
    ELSE IF i = n THEN Word(i, len)
    ELSE Word(i, len) \o Spaces(sp) \o WordsFrom(i + 1, n, len, sp)
TextOf(n, len, sp) ==
    IF sp = 1 THEN WordsFrom(1, n, len, sp)
    ELSE Spaces(1) \o WordsFrom(1, n, len, sp) \o Spaces(1)

KwShort == <<"k", "w">>
KwLong == [k \in 1..41 |-> "k"]

\* the text as the content of the message: a string or a list of blocks
\* (a tool block first, then the text block)
ContentOf(text, form) ==
    IF form = "str" THEN StrContent(text)
    ELSE ListContent(<<[type |-> "tool_use", text |-> EmptyStr], [type |-> "text", text |-> text]>>)

\* a file whose assistant record has the text as its own message content,
\* or gets it from its parent user record
KeywordFile(text, form, kw, via) ==
    LET rec == [Obj EXCEPT !.type = "assistant", !.timestamp = Iso(Now),
                           !.tokShape = "flat", !.tokens = <<1, 0, 0, 0>>, !.keyword = kw]
    IN  IF via = "own"
        THEN <<[rec EXCEPT !.message = DictMessage(EmptyStr, ContentOf(text, form))]>>
        ELSE <<[rec EXCEPT !.parentUuid = IdU],
               [Obj EXCEPT !.type = "user", !.uuid = IdU, !.timestamp = Iso(Now),
                           !.message = DictMessage(EmptyStr, ContentOf(text, form))]>>

(***************************************************************************)
(* reader.py: load_usage_entries.                                          *)
(***************************************************************************)
NoCutoff == [set |-> FALSE, t |-> 0]
NoRaw == [set |-> FALSE, items |-> <<>>]

\* the final sort left out: the entries stay in file-then-line order
sort_entries_skipped(es) == es

sort_entries(es) == SortByTimestamp(es)

\* reader.py:44-59
LoadStart ==
    /\ rpc = "start"
    /\ cutoff_time' = IF hours_back # 0 THEN [set |-> TRUE, t |-> Now - hours_back]
                      ELSE NoCutoff
    /\ IF files = <<>>
       THEN /\ rpc' = "done"
            /\ raw_entries' = NoRaw
       ELSE /\ rpc' = "files"
            /\ raw_entries' = IF include_raw THEN [set |-> TRUE, items |-> <<>>] ELSE NoRaw
    /\ all_entries' = <<>>
    /\ processed_hashes' = {}
    /\ file_idx' = 1
    /\ UNCHANGED <<files, hours_back, include_raw, failed_files, wvars, uvars>>

\* reader.py:61-73, one iteration of the loop over the files
ProcessFile ==
    /\ rpc = "files"
    /\ file_idx <= Len(files)
    /\ LET r == _process_single_file(files[file_idx], cutoff_time, processed_hashes, include_raw)
       IN  /\ all_entries' = all_entries \o r.entries
           /\ raw_entries' = IF include_raw /\ r.raw_data # <<>>
                             THEN [raw_entries EXCEPT !.items = @ \o r.raw_data]
                             ELSE raw_entries
           /\ processed_hashes' = r.hashes
           /\ failed_files' = IF r.failed THEN failed_files \cup {file_idx} ELSE failed_files
    /\ file_idx' = file_idx + 1
    /\ UNCHANGED <<files, hours_back, include_raw, rpc, cutoff_time, wvars, uvars>>

\* reader.py:75-77
LoadFinish ==
    /\ rpc = "files"
    /\ file_idx > Len(files)
    /\ all_entries' = sort_entries(all_entries)
    /\ rpc' = "done"
    /\ UNCHANGED <<files, hours_back, include_raw, cutoff_time, file_idx, raw_entries,
                   processed_hashes, failed_files, wvars, uvars>>

(***************************************************************************)
(* writer.py: the usage log and the two calls that touch it.               *)
(***************************************************************************)
NumPaths == 3     \* len(USAGE_PATHS)
Paths == 1..NumPaths

NoFile == [exists |-> FALSE, lines |-> <<>>]
FileOf(ls) == [exists |-> TRUE, lines |-> ls]

\* next(x for i in order if cond(i), default)
FirstOr(S, default) == IF S = {} THEN default ELSE CHOOSE i \in S : \A j \in S : i <= j

IdN == <<"n">>
KwOld == <<"o", "l", "d">>
KwNew == <<"n", "e", "w">>

\* a datetime: its instant t (UTC, hours), aware or naive; a naive one reads
\* the wall clock of a zone off hours east of UTC
DateTime(aware, t, off) == [aware |-> aware, t |-> t, off |-> off]

\* datetime.isoformat() (writer.py:65): an aware datetime is written with
\* its offset, which fixes the instant; a naive one as its wall-clock
\* reading, with no offset
isoformat(dt) ==
    IF dt.aware THEN Iso(dt.t) ELSE [form |-> "naive", t |-> dt.t + dt.off]

\* the record log_usage_entry builds (writer.py:64-77) for the arguments of
\* this call; a falsy keyword is left out
BuildEntry(message_id, request_id, keyword) ==
    [Obj EXCEPT !.timestamp = Iso(Now), !.model = <<"s">>, !.tokShape = "flat",
                !.tokens = <<3, 1, 0, 0>>, !.message_id = message_id,
                !.request_id = request_id, !.keyword = keyword]

\* json.dumps of a parsed object: the same fields, in json.dumps's formatting
Dumps(entry) == [entry EXCEPT !.fmt = "dumps"]

\* writer.py:58-60, the path log_usage_entry appends to
AppendTarget(log_path) ==
    IF log_path.kind = "default" THEN FirstOr({i \in Paths : dirs[i]}, 1) ELSE log_path.i

\* writer.py:58-77: resolve the path, create its parent, build the record.
\* A log_path given as a str (as annotated) has no .parent: AttributeError.
\* mkdir of a missing parent either creates it or raises (OSError); neither
\* statement is inside a try.
AppendResolve ==
    /\ app.pc = "start"
    /\ IF app.log_path.kind = "str"
       THEN /\ app' = [app EXCEPT !.pc = "done", !.result = "raised"]
            /\ UNCHANGED dirs
       ELSE LET p == AppendTarget(app.log_path)
            IN  \/ /\ app' = [app EXCEPT !.pc = "open", !.path = p]
                   /\ dirs' = [dirs EXCEPT ![p] = TRUE]
                \/ /\ ~dirs[p]
                   /\ app' = [app EXCEPT !.pc = "done", !.result = "raised"]
                   /\ UNCHANGED dirs
    /\ UNCHANGED <<disk, pat, hist, rvars, uvars>>

\* writer.py:80: open(log_path, "a") creates the file when it is missing; a
\* failure is caught at writer.py:84
AppendOpen ==
    /\ app.pc = "open"
    /\ \/ /\ app' = [app EXCEPT !.pc = "write"]
          /\ disk' = [disk EXCEPT ![app.path].exists = TRUE]
       \/ /\ app' = [app EXCEPT !.pc = "done", !.result = "false"]
          /\ UNCHANGED disk
    /\ UNCHANGED <<dirs, pat, hist, rvars, uvars>>

\* writer.py:81-83: the line goes to the end of the file (append mode) when
\* the with block closes; a failure is caught at writer.py:84
AppendWrite ==
    /\ app.pc = "write"
    /\ \/ /\ app' = [app EXCEPT !.pc = "done", !.result = "true"]
          /\ disk' = [disk EXCEPT ![app.path].lines = Append(@, Dumps(app.entry))]
          /\ hist' = [hist EXCEPT !.appended = TRUE]
       \/ /\ app' = [app EXCEPT !.pc = "done", !.result = "false"]
          /\ UNCHANGED <<disk, hist>>
    /\ UNCHANGED <<dirs, pat, rvars, uvars>>

\* writer.py:115-117
EntryMsgId(entry) ==
    IF Truthy(entry.message_id) THEN entry.message_id
    ELSE IF entry.message.shape = "dict" THEN entry.message.id
    ELSE EmptyStr

\* writer.py:118: entry_msg_id is None, never "", when no id is found
Matches(entry, message_id) == Truthy(EntryMsgId(entry)) /\ EntryMsgId(entry) = message_id

\* writer.py:109-123 from line i on.  st = [raised, lines, found].  Blank and
\* undecodable lines are skipped and so are not kept in lines; entry.get on a
\* value that is no dict raises AttributeError, which nothing catches.
RECURSIVE ReadAll(_, _, _, _, _)
ReadAll(ls, i, message_id, keyword, st) ==
    IF i > Len(ls) \/ st.raised THEN st
    ELSE LET line == ls[i]
         IN  IF line.kind \in {"blank", "garbage"} THEN ReadAll(ls, i + 1, message_id, keyword, st)
             ELSE IF line.kind = "nonobject" THEN [st EXCEPT !.raised = TRUE]
             ELSE IF Matches(line, message_id)
                  THEN ReadAll(ls, i + 1, message_id, keyword,
                               [st EXCEPT !.lines = Append(@, [line EXCEPT !.keyword = keyword]),
                                          !.found = TRUE])
             ELSE ReadAll(ls, i + 1, message_id, keyword, [st EXCEPT !.lines = Append(@, line)])

\* writer.py:99-102
PatchResolve ==
    /\ pat.pc = "start"
    /\ LET S == {i \in Paths : disk[i].exists}
       IN  IF S = {}
           THEN pat' = [pat EXCEPT !.pc = "done", !.result = "false"]
           ELSE pat' = [pat EXCEPT !.pc = "read", !.path = FirstOr(S, 1)]
    /\ hist' = [hist EXCEPT !.before = disk]
    /\ UNCHANGED <<dirs, disk, app, rvars, uvars>>

\* writer.py:104-130
PatchRead ==
    /\ pat.pc = "read"
    /\ \/ LET r == ReadAll(disk[pat.path].lines, 1, pat.message_id, pat.keyword,
                           [raised |-> FALSE, lines |-> <<>>, found |-> FALSE])
          IN  IF r.raised
              THEN pat' = [pat EXCEPT !.pc = "done", !.result = "raised"]
              ELSE IF ~r.found
              THEN pat' = [pat EXCEPT !.pc = "done", !.result = "false", !.lines = r.lines]
              ELSE pat' = [pat EXCEPT !.pc = "open", !.lines = r.lines, !.found = TRUE]
       \* open or read fails with FileNotFoundError: caught at writer.py:124
       \/ pat' = [pat EXCEPT !.pc = "done", !.result = "false"]
       \* open or read fails otherwise (PermissionError, UnicodeDecodeError):
       \* no except clause catches it
       \/ pat' = [pat EXCEPT !.pc = "done", !.result = "raised"]
    /\ UNCHANGED <<dirs, disk, app, hist, rvars, uvars>>

\* writer.py:134: open(path, "w") truncates the file; a failure is caught at
\* writer.py:139 and leaves the file as it was
PatchOpen ==
    /\ pat.pc = "open"
    /\ \/ /\ pat' = [pat EXCEPT !.pc = "write", !.pos = 0]
          /\ disk' = [disk EXCEPT ![pat.path].lines = <<>>]
       \/ /\ pat' = [pat EXCEPT !.pc = "done", !.result = "false"]
          /\ UNCHANGED disk
    /\ UNCHANGED <<dirs, app, hist, rvars, uvars>>

\* a write at the descriptor's own offset (the file is not open in append
\* mode): it replaces what another writer put there, or extends the file
WriteAt(ls, pos, line) ==
    IF pos + 1 <= Len(ls) THEN [ls EXCEPT ![pos + 1] = line] ELSE Append(ls, line)

\* writer.py:135-136: the lines reach the file in order, one flush at a time;
\* a flush that fails (disk full, I/O error) is caught at writer.py:139
PatchWrite ==
    /\ pat.pc = "write"
    /\ pat.pos < Len(pat.lines)
    /\ \/ /\ pat' = [pat EXCEPT !.pos = @ + 1]
          /\ disk' = [disk EXCEPT ![pat.path].lines = WriteAt(@, pat.pos, Dumps(pat.lines[pat.pos + 1]))]
       \/ /\ pat' = [pat EXCEPT !.pc = "done", !.result = "false"]
          /\ UNCHANGED disk
    /\ UNCHANGED <<dirs, app, hist, rvars, uvars>>

\* writer.py:137-138
PatchClose ==
    /\ pat.pc = "write"
    /\ pat.pos = Len(pat.lines)
    /\ pat' = [pat EXCEPT !.pc = "done", !.result = "true"]
    /\ UNCHANGED <<dirs, disk, app, hist, rvars, uvars>>

(***************************************************************************)
(* monitor_ui.py: the key listener thread and the overlay drawn by the     *)
(* main loop.  The two threads share last_n_display; line 158 reads it     *)
(* twice, for the slice and then for the first number, and the listener    *)
(* may run between the two reads.                                          *)
(***************************************************************************)
Keys123 == {"1", "2", "3", "q", "x"}

\* render_overlay not called yet
NoOverlay == [pc |-> "idle", empty |-> FALSE, slice |-> <<>>, n_slice |-> 0,
              n_start |-> 0, recent |-> <<>>]

\* monitor_ui.py:50-59, one key read by listen_for_keys
KeyPress ==
    /\ ~stop_listen
    /\ \E ch \in Keys123 :
          /\ last_n_display' = IF ch = "1" THEN 3
                               ELSE IF ch = "2" THEN 15
                               ELSE IF ch = "3" THEN 30
                               ELSE last_n_display
          /\ stop_listen' = (ch = "q")
    /\ UNCHANGED <<overlay, rvars, wvars>>

\* entries[-n:]
LastN(entries, n) ==
    IF Len(entries) <= n THEN entries
    ELSE SubSeq(entries, Len(entries) - n + 1, Len(entries))

\* list(enumerate(slice, start=start))
Enumerate(slice, start) == [i \in 1..Len(slice) |-> [idx |-> start + i - 1, e |-> slice[i]]]

\* monitor_ui.py:151-158: the entries are loaded; none gives the "no token
\* data" panel, else the last last_n_display entries are sliced
RenderSlice ==
    /\ ~stop_listen
    /\ overlay.pc \in {"idle", "drawn"}
    /\ rpc = "done"
    /\ IF all_entries = <<>>
       THEN overlay' = [NoOverlay EXCEPT !.pc = "drawn", !.empty = TRUE]
       ELSE overlay' = [NoOverlay EXCEPT !.pc = "sliced",
                                         !.slice = LastN(all_entries, last_n_display),
                                         !.n_slice = last_n_display]
    /\ UNCHANGED <<last_n_display, stop_listen, rvars, wvars>>

\* monitor_ui.py:158-195: the slice is numbered from
\* total_entries - last_n_display + 1 and the panel is drawn
RenderNumber ==
    /\ overlay.pc = "sliced"
    /\ overlay' = [overlay EXCEPT !.pc = "drawn",
                                  !.n_start = last_n_display,
                                  !.recent = Enumerate(overlay.slice,
                                                 Len(all_entries) - last_n_display + 1)]
    /\ UNCHANGED <<last_n_display, stop_listen, rvars, wvars>>

(***************************************************************************)
(* Initial states and specifications.                                      *)
(***************************************************************************)
\* the writer at rest, for the runs of the reader
WriterIdle ==
    /\ dirs = [i \in Paths |-> FALSE]
    /\ disk = [i \in Paths |-> NoFile]
    /\ app = [pc |-> "done", log_path |-> [kind |-> "default", i |-> 0],
              timestamp |-> DateTime(TRUE, Now, 0), entry |-> Obj, path |-> 0,
              result |-> "none"]
    /\ pat = [pc |-> "done", message_id |-> EmptyStr, keyword |-> EmptyStr, path |-> 0,
              lines |-> <<>>, found |-> FALSE, pos |-> 0, result |-> "none"]
    /\ hist = [before |-> disk, appended |-> FALSE]

\* the monitor just started, for the runs of the reader and of the writer
OverlayIdle ==
    /\ last_n_display = 3
    /\ stop_listen = FALSE
    /\ overlay = NoOverlay

\* the reader at rest, for the runs of the writer
ReaderIdle ==
    /\ files = <<>>
    /\ hours_back = 0
    /\ include_raw = FALSE
    /\ rpc = "done"
    /\ cutoff_time = NoCutoff
    /\ file_idx = 1
    /\ all_entries = <<>>
    /\ raw_entries = NoRaw
    /\ processed_hashes = {}
    /\ failed_files = {}

\* one call of load_usage_entries on any set of files
ReaderInit ==
    /\ files \in FileSets
    /\ hours_back \in 0..MaxHoursBack
    /\ include_raw \in BOOLEAN
    /\ rpc = "start"
    /\ cutoff_time = NoCutoff
    /\ file_idx = 1
    /\ all_entries = <<>>
    /\ raw_entries = NoRaw
    /\ processed_hashes = {}
    /\ failed_files = {}
    /\ WriterIdle
    /\ OverlayIdle

ReaderNext == LoadStart \/ ProcessFile \/ LoadFinish

ReaderSpec == ReaderInit /\ [][ReaderNext]_vars

\* one call of load_usage_entries(include_raw=True) on conversation files,
\* with no cutoff or with the widest one
LinkInit ==
    /\ files \in FileSetsOf(LinkLines, MaxLinkLines)
    /\ hours_back \in {0, MaxHoursBack}
    /\ include_raw = TRUE
    /\ rpc = "start"
    /\ cutoff_time = NoCutoff
    /\ file_idx = 1
    /\ all_entries = <<>>
    /\ raw_entries = NoRaw
    /\ processed_hashes = {}
    /\ failed_files = {}
    /\ WriterIdle
    /\ OverlayIdle

LinkSpec == LinkInit /\ [][ReaderNext]_vars

\* one call of load_usage_entries on files whose records carry ids with and
\* without the separator
KeyInit ==
    /\ files \in FileSetsOf(KeyLines, MaxLines)
    /\ hours_back \in 0..MaxHoursBack
    /\ include_raw \in BOOLEAN
    /\ rpc = "start"
    /\ cutoff_time = NoCutoff
    /\ file_idx = 1
    /\ all_entries = <<>>
    /\ raw_entries = NoRaw
    /\ processed_hashes = {}
    /\ failed_files = {}
    /\ WriterIdle
    /\ OverlayIdle

KeySpec == KeyInit /\ [][ReaderNext]_vars

\* one call of load_usage_entries on one file whose record carries a text
\* and, or not, an explicit keyword
KeywordInit ==
    /\ \E n \in 0..MaxWords, len \in WordLens, sp \in {1, 2}, form \in {"str", "list"},
          kw \in {EmptyStr, KwShort, KwLong}, via \in {"own", "linked"} :
          files = <<KeywordFile(TextOf(n, len, sp), form, kw, via)>>
    /\ hours_back = 0
    /\ include_raw = FALSE
    /\ rpc = "start"
    /\ cutoff_time = NoCutoff
    /\ file_idx = 1
    /\ all_entries = <<>>
    /\ raw_entries = NoRaw
    /\ processed_hashes = {}
    /\ failed_files = {}
    /\ WriterIdle
    /\ OverlayIdle

KeywordSpec == KeywordInit /\ [][ReaderNext]_vars

MaxEntries == 31

\* a log of n billable records, one per hour
OverlayFile(n) ==
    [k \in 1..n |-> [Obj EXCEPT !.type = "assistant", !.timestamp = Iso(k),
                                !.tokShape = "flat", !.tokens = <<1, 1, 0, 0>>]]

\* the monitor started on a log of up to MaxEntries records:
\* load_usage_entries(include_raw=True) has returned their entries
OverlayInit ==
    /\ \E n \in 0..MaxEntries :
          LET r == _process_single_file(OverlayFile(n), NoCutoff, {}, TRUE)
          IN  /\ files = <<OverlayFile(n)>>
              /\ all_entries = sort_entries(r.entries)
              /\ raw_entries = [set |-> TRUE, items |-> r.raw_data]
              /\ processed_hashes = r.hashes
    /\ hours_back = 0
    /\ include_raw = TRUE
    /\ rpc = "done"
    /\ cutoff_time = NoCutoff
    /\ file_idx = 2
    /\ failed_files = {}
    /\ WriterIdle
    /\ OverlayIdle

OverlayNext == KeyPress \/ RenderSlice \/ RenderNumber

OverlaySpec == OverlayInit /\ [][OverlayNext]_vars

\* the lines a usage log may hold before the calls
LogLineM == BuildEntry(IdM, IdA, EmptyStr)
LogLineC == [Obj EXCEPT !.message = DictMessage(IdC, NoContent), !.request_id = IdB,
                        !.timestamp = Iso(Now - 1), !.tokShape = "nested",
                        !.tokens = <<1, 1, 0, 0>>, !.keyword = KwOld, !.fmt = "other"]
WriterLines == {LogLineM, LogLineC, GarbageLine, NonObjectLine, BlankLine}

\* each candidate path: no parent directory, a parent directory without the
\* file, or the file; the first file that exists holds the given lines
Layouts == [Paths -> {"nodir", "dir", "file"}]
DiskOf(layout, ls) ==
    LET first == FirstOr({i \in Paths : layout[i] = "file"}, 0)
    IN  [i \in Paths |-> IF layout[i] # "file" THEN NoFile
                         ELSE IF i = first THEN FileOf(ls) ELSE FileOf(<<>>)]

LogPaths == {[kind |-> "default", i |-> 0], [kind |-> "str", i |-> 0]}
            \cup {[kind |-> "path", i |-> i] : i \in Paths}

\* one call of log_usage_entry and one of add_keyword_to_existing_entry, by
\* two callers that do not wait for each other
WriterInit ==
    /\ \E layout \in Layouts, ls \in SeqsUpTo(WriterLines, MaxLogLines) :
          /\ dirs = [i \in Paths |-> layout[i] # "nodir"]
          /\ disk = DiskOf(layout, ls)
    /\ \E lp \in LogPaths :
          app = [pc |-> "start", log_path |-> lp, timestamp |-> DateTime(TRUE, Now, 0),
                 entry |-> BuildEntry(IdN, IdA, EmptyStr), path |-> 0, result |-> "none"]
    /\ \E m \in {IdM, IdC, IdN} :
          pat = [pc |-> "start", message_id |-> m, keyword |-> KwNew, path |-> 0,
                 lines |-> <<>>, found |-> FALSE, pos |-> 0, result |-> "none"]
    /\ hist = [before |-> disk, appended |-> FALSE]
    /\ ReaderIdle
    /\ OverlayIdle

WriterNext ==
    \/ AppendResolve \/ AppendOpen \/ AppendWrite
    \/ PatchResolve \/ PatchRead \/ PatchOpen \/ PatchWrite \/ PatchClose

WriterSpec == WriterInit /\ [][WriterNext]_vars

(***************************************************************************)
(* The round trip: log_usage_entry appends an entry, once or again, and    *)
(* load_usage_entries then reads the directory that holds the log.         *)
(***************************************************************************)
MaxAppends == 2

\* the lines equal to the appended one that the log holds
Copies == {i \in 1..Len(disk[app.path].lines) : disk[app.path].lines[i] = Dumps(app.entry)}

\* log_usage_entry called again with the same arguments
AppendAgain ==
    /\ app.pc = "done"
    /\ app.result = "true"
    /\ rpc = "idle"
    /\ Cardinality(Copies) < MaxAppends
    /\ app' = [app EXCEPT !.pc = "start", !.result = "none", !.path = 0]
    /\ UNCHANGED <<dirs, disk, pat, hist, rvars, uvars>>

\* load_usage_entries(data_path) called after a successful append, on the
\* directory of the log: _find_jsonl_files (reader.py:52, 108-113) finds it
Discover ==
    /\ rpc = "idle"
    /\ app.pc = "done"
    /\ hist.appended
    /\ files' = <<disk[app.path].lines>>
    /\ rpc' = "start"
    /\ UNCHANGED <<hours_back, include_raw, cutoff_time, file_idx, all_entries, raw_entries,
                   processed_hashes, failed_files, wvars, uvars>>

\* what the log may hold before the call
RoundTripLines == {LogLineM, GarbageLine, NonObjectLine, BlankLine}

\* the entry: an aware or a naive datetime, in UTC or one hour east of it;
\* input and output tokens or cache-read tokens only; a keyword or none
RoundTripInit ==
    /\ dirs = [i \in Paths |-> i = 1]
    /\ \E ls \in SeqsUpTo(RoundTripLines, MaxLogLines) :
          disk \in {[i \in Paths |-> IF i = 1 THEN FileOf(ls) ELSE NoFile],
                    [i \in Paths |-> NoFile]}
    /\ \E aware \in BOOLEAN, off \in {0, 1}, tok \in {<<3, 1, 0, 0>>, <<0, 0, 0, 1>>},
          kw \in {EmptyStr, KwNew} :
          app = [pc |-> "start", log_path |-> [kind |-> "default", i |-> 0],
                 timestamp |-> DateTime(aware, Now, off),
                 entry |-> [BuildEntry(IdN, IdA, kw) EXCEPT
                               !.timestamp = isoformat(DateTime(aware, Now, off)),
                               !.tokens = tok],
                 path |-> 0, result |-> "none"]
    /\ pat = [pc |-> "done", message_id |-> EmptyStr, keyword |-> EmptyStr, path |-> 0,
              lines |-> <<>>, found |-> FALSE, pos |-> 0, result |-> "none"]
    /\ hist = [before |-> disk, appended |-> FALSE]
    /\ files = <<>>
    /\ hours_back = 0
    /\ include_raw = FALSE
    /\ rpc = "idle"
    /\ cutoff_time = NoCutoff
    /\ file_idx = 1
    /\ all_entries = <<>>
    /\ raw_entries = NoRaw
    /\ processed_hashes = {}
    /\ failed_files = {}
    /\ OverlayIdle

RoundTripNext ==
    \/ AppendResolve \/ AppendOpen \/ AppendWrite \/ AppendAgain
    \/ Discover \/ LoadStart \/ ProcessFile \/ LoadFinish

RoundTripSpec == RoundTripInit /\ [][RoundTripNext]_vars

(***************************************************************************)
(* Properties of load_usage_entries (checked under ReaderSpec).            *)
(***************************************************************************)
Returned == rpc = "done"
Entries == 1..Len(all_entries)
\* every (file, line) position of the input
Positions == UNION {{<<f, l>> : l \in 1..Len(files[f])} : f \in 1..Len(files)}
LineAt(p) == files[p[1]][p[2]]

\* the request ids the source records carry, under either spelling
SourceRequestIds ==
    {id \in {LineAt(p).requestId : p \in Positions} \cup {LineAt(p).request_id : p \in Positions} :
        Truthy(id)}

\* a line the reader cannot use: undecodable, not an object, a user record
\* whose message is no mapping, a record whose uuid / parentUuid is a list
Unprocessable(line) ==
    \/ line.kind \in {"garbage", "nonobject"}
    \/ line.kind = "object" /\ line.type = "user" /\ line.message.shape = "nondict"
    \/ line.kind = "object" /\ Unhashable \in {line.uuid, line.parentUuid}

\* a well-formed billable line: an object that maps to an entry
Billable(line) == line.kind = "object" /\ ~Unprocessable(line) /\ _map_to_usage_entry(line).ok

\* no other line of the input carries the line's dedup key
NonDuplicate(p) ==
    \A q \in Positions :
        (q # p /\ LineAt(q).kind = "object")
            => \/ _create_unique_hash(LineAt(p)) = NoHash
               \/ _create_unique_hash(LineAt(q)) # _create_unique_hash(LineAt(p))

\* the entry of a line is in the result (text and keyword, which linking may
\* set, left aside)
Core(e) == <<e.timestamp, e.input_tokens, e.output_tokens, e.cache_creation_tokens,
             e.cache_read_tokens, e.model, e.message_id, e.request_id>>
Emitted(line) ==
    \E k \in Entries : Core(all_entries[k]) = Core(_map_to_usage_entry(line))

\* C1: the returned list holds at most one entry per (message_id,
\* request_id) pair when the source records carry both ids, under whichever
\* accepted spelling (both spellings on one record included).
C1_UniqueIdPairs ==
    Returned =>
        \A i \in Entries, j \in Entries :
            (/\ i < j
             /\ Truthy(all_entries[i].message_id)
             /\ all_entries[i].request_id \in SourceRequestIds
             /\ all_entries[j].request_id \in SourceRequestIds)
                => <<all_entries[i].message_id, all_entries[i].request_id>>
                       # <<all_entries[j].message_id, all_entries[j].request_id>>

\* C6: a line that cannot be processed makes the reader skip that line only:
\* every well-formed billable line of the same file (not older than the
\* cutoff, not a duplicate) still yields its entry.
C6_BadLineSkipsOnlyItself ==
    Returned =>
        \A p \in Positions, q \in Positions :
            (/\ p[1] = q[1]
             /\ Unprocessable(LineAt(q))
             /\ Billable(LineAt(p))
             /\ _should_process_entry(LineAt(p), cutoff_time, {})
             /\ NonDuplicate(p))
                => Emitted(LineAt(p))

\* C7: no returned entry has all four token counts equal to zero.
C7_NoAllZeroEntries ==
    \A k \in Entries :
        \/ all_entries[k].input_tokens # 0
        \/ all_entries[k].output_tokens # 0
        \/ all_entries[k].cache_creation_tokens # 0
        \/ all_entries[k].cache_read_tokens # 0

\* C7 witness: a run has returned entries from an input that holds a record
\* with a parseable timestamp and all-zero token counts, in a file that was
\* read to its end.
C7_Witness ==
    /\ Returned
    /\ all_entries # <<>>
    /\ \E p \in Positions :
          /\ LineAt(p).kind = "object"
          /\ parse_timestamp(LineAt(p).timestamp).ok
          /\ extract_tokens(LineAt(p)) = <<0, 0, 0, 0>>
          /\ p[1] \notin failed_files

\* C8: the returned list is non-decreasing by timestamp, whatever the order
\* of the files and of the lines.
C8_SortedByTimestamp ==
    Returned =>
        \A i \in Entries, j \in Entries :
            i < j => all_entries[i].timestamp <= all_entries[j].timestamp

\* C8 witness: two files, the first one's entry later than the second one's,
\* and both entries returned.
C8_Witness ==
    /\ Returned
    /\ Len(files) = 2
    /\ Len(files[1]) = 1 /\ Len(files[2]) = 1
    /\ Billable(files[1][1]) /\ Billable(files[2][1])
    /\ _map_to_usage_entry(files[1][1]).timestamp > _map_to_usage_entry(files[2][1]).timestamp
    /\ Len(all_entries) = 2

\* the first half of C9 alone: with a cutoff, no returned entry is older
C9_NothingOlderThanCutoff ==
    (Returned /\ hours_back > 0) =>
        \A k \in Entries : all_entries[k].timestamp >= Now - hours_back

\* C9: with a cutoff of h > 0 hours, no returned entry is older than
\* now - h, and every valid, non-duplicate record at or after now - h is
\* returned.
C9_RecencyCutoff ==
    (Returned /\ hours_back > 0) =>
        /\ \A k \in Entries : all_entries[k].timestamp >= Now - hours_back
        /\ \A p \in Positions :
              (/\ Billable(LineAt(p))
               /\ _map_to_usage_entry(LineAt(p)).timestamp >= Now - hours_back
               /\ NonDuplicate(p))
                  => Emitted(LineAt(p))

(***************************************************************************)
(* Properties of the writer (checked under WriterSpec).                    *)
(***************************************************************************)
LinesOf(d, i) == d[i].lines
Indices(ls) == 1..Len(ls)

\* the log the patch was called on: the first candidate file that existed
LogBefore ==
    LET S == {i \in Paths : hist.before[i].exists}
    IN  IF S = {} THEN <<>> ELSE LinesOf(hist.before, FirstOr(S, 1))

EqModFmt(a, b) == Dumps(a) = Dumps(b)
DumpsAll(ls) == [i \in Indices(ls) |-> Dumps(ls[i])]

\* C2: in every interleaving of an append and a patch on the same log, an
\* entry whose append returned True is in the file once both calls are over
\* (stated for the runs in which the patch met no filesystem fault and
\* returned True, so that only the interleaving is in question).
C2_AppendSurvivesPatch ==
    (app.pc = "done" /\ pat.pc = "done" /\ app.result = "true" /\ pat.result = "true") =>
        \E i \in Indices(LinesOf(disk, app.path)) :
            LinesOf(disk, app.path)[i].message_id = app.entry.message_id

\* C3: at every point of a patch (no append running), the file holds the
\* complete set of lines from before the patch or the complete patched set.
C3_LogNeverPartial ==
    (pat.pc \in {"open", "write", "done"} /\ pat.found /\ app.pc = "start") =>
        \/ LinesOf(disk, pat.path) = LinesOf(hist.before, pat.path)
        \/ LinesOf(disk, pat.path) = DumpsAll(pat.lines)

RECURSIVE NonBlank(_)
NonBlank(ls) ==
    IF ls = <<>> THEN <<>>
    ELSE IF ls[1].kind = "blank" THEN NonBlank(Tail(ls))
    ELSE <<ls[1]>> \o NonBlank(Tail(ls))

\* C4: a successful patch (no append running) changes only the keyword of
\* the lines whose message id is m; every other line, whatever its content,
\* is still in the file, in the same order (lines of whitespace left aside).
C4_PatchChangesOnlyKeyword ==
    (pat.result = "true" /\ app.pc = "start") =>
        LET b == NonBlank(LinesOf(hist.before, pat.path))
            a == LinesOf(disk, pat.path)
        IN  /\ Len(a) = Len(b)
            /\ \A i \in Indices(b) :
                  EqModFmt(a[i], IF Matches(b[i], pat.message_id)
                                 THEN [b[i] EXCEPT !.keyword = pat.keyword]
                                 ELSE b[i])

\* C5: when no line of the log has message id m, the patch (no append
\* running) returns False and leaves the file byte-identical.
C5_MissingIdLeavesFile ==
    (/\ pat.pc = "done"
     /\ app.pc = "start"
     /\ \A i \in Indices(LogBefore) : ~Matches(LogBefore[i], pat.message_id))
        => (pat.result = "false" /\ disk = hist.before)

\* C10: log_usage_entry never raises; it returns True exactly when the line
\* was appended and False when it could not write.
C10_AppendNeverRaises ==
    app.pc = "done" =>
        /\ app.result \in {"true", "false"}
        /\ (app.result = "true") <=> hist.appended

\* C11: add_keyword_to_existing_entry never raises: whatever the log holds
\* and whatever read or write fails, the call ends with True or False.
C11_PatchNeverRaises ==
    pat.pc = "done" => pat.result \in {"true", "false"}

(***************************************************************************)
(* Properties of load_usage_entries over conversation files (checked under *)
(* LinkSpec).                                                              *)
(***************************************************************************)
\* the positions of the files that were read to their end
ReadPositions == {p \in Positions : p[1] \notin failed_files}

\* no other line of a file that was read to its end carries the line's key
NonDuplicateAmongRead(p) ==
    \A q \in ReadPositions :
        (q # p /\ LineAt(q).kind = "object")
            => \/ _create_unique_hash(LineAt(p)) = NoHash
               \/ _create_unique_hash(LineAt(q)) # _create_unique_hash(LineAt(p))

\* C12: when a file fails the call still returns; the failed file
\* contributes no entry, and every other file contributes its entries: each
\* of its billable lines that passes the cutoff and has no duplicate in the
\* files that were read is returned, whatever the failed file held.
C12_FailedFileIsolated ==
    (Returned /\ failed_files # {}) =>
        /\ Len(all_entries) <= Cardinality({p \in ReadPositions : Billable(LineAt(p))})
        /\ \A k \in Entries : \E p \in ReadPositions :
              /\ Billable(LineAt(p))
              /\ Core(all_entries[k]) = Core(_map_to_usage_entry(LineAt(p)))
        /\ \A p \in ReadPositions :
              (/\ Billable(LineAt(p))
               /\ _should_process_entry(LineAt(p), cutoff_time, {})
               /\ NonDuplicateAmongRead(p))
                  => Emitted(LineAt(p))

\* file discovery order, then line order
Before(p, q) == p[1] < q[1] \/ (p[1] = q[1] /\ p[2] < q[2])
Earliest(S) == CHOOSE p \in S : \A q \in S : q = p \/ Before(p, q)

\* the dedup keys the input carries
Keys == {_create_unique_hash(LineAt(p)) : p \in {q \in Positions : LineAt(q).kind = "object"}}
            \ {NoHash}

\* the records with key h, in files that were read to their end, that pass
\* the recency filter and map to an entry
Candidates(h) ==
    {p \in ReadPositions :
        /\ LineAt(p).kind = "object"
        /\ _create_unique_hash(LineAt(p)) = h
        /\ _should_process_entry(LineAt(p), cutoff_time, {})
        /\ _map_to_usage_entry(LineAt(p)).ok}

\* C18: for each (message_id, request_id) pair the one returned entry is
\* that of the earliest record, by file then line, that carries the pair,
\* passes the recency filter and maps: earlier records with the pair that
\* did not map do not suppress it and later ones do not replace it.
C18_FirstMappedWins ==
    Returned =>
        \A h \in Keys :
            Candidates(h) # {} =>
                LET first == _map_to_usage_entry(LineAt(Earliest(Candidates(h))))
                IN  \E k \in Entries :
                        /\ Core(all_entries[k]) = Core(first)
                        /\ \A j \in Entries :
                              (/\ all_entries[j].message_id = first.message_id
                               /\ all_entries[j].request_id = first.request_id)
                                  => j = k

\* the lines of the input, file after file
RECURSIVE Flatten(_)
Flatten(fs) == IF fs = <<>> THEN <<>> ELSE fs[1] \o Flatten(Tail(fs))

\* a is b with some elements left out, the order kept
RECURSIVE IsSubseq(_, _)
IsSubseq(a, b) ==
    IF a = <<>> THEN TRUE
    ELSE IF b = <<>> THEN FALSE
    ELSE IF a[1] = b[1] THEN IsSubseq(Tail(a), Tail(b))
    ELSE IsSubseq(a, Tail(b))

\* a raw record as its line held it, the attached _user_text taken off
Unlinked(data) == [data EXCEPT !.user_text = EmptyStr]
RawItems == raw_entries.items
RawLines == [k \in 1..Len(RawItems) |-> Unlinked(RawItems[k])]

\* the entries of the raw records that map, in the order of the raw list
RECURSIVE MappedOf(_)
MappedOf(rs) ==
    IF rs = <<>> THEN <<>>
    ELSE LET e == _map_to_usage_entry(rs[1])
         IN  (IF e.ok THEN <<e>> ELSE <<>>) \o MappedOf(Tail(rs))

UserTextsOf(lines, u) ==
    {ContentText(lines[i].message.content) :
        i \in {j \in 1..Len(lines) :
                  /\ lines[j].kind = "object"
                  /\ lines[j].type = "user"
                  /\ lines[j].message.shape = "dict"
                  /\ lines[j].uuid = u
                  /\ Truthy(ContentText(lines[j].message.content))}}

\* an assistant record that refers to a parent and maps to an entry
LinkableChild(line) ==
    /\ line.kind = "object"
    /\ line.type = "assistant"
    /\ Truthy(line.parentUuid)
    /\ line.parentUuid # Unhashable
    /\ _map_to_usage_entry(line).ok

\* one file has just been processed; the entries it added
FileStep == rpc = "files" /\ file_idx' = file_idx + 1
NewEntries == (Len(all_entries) + 1)..Len(all_entries')

\* C19: an assistant record that yields an entry and whose parentUuid is
\* the uuid of a user record with non-empty text in the same file gets that
\* user's text as the entry's text, and the keyword derived from it when
\* the record has no explicit keyword, wherever the two lines stand.
C19_LinkedTextFromParent ==
    [][FileStep =>
        \A i \in 1..Len(files[file_idx]) :
            LET line == files[file_idx][i]
            IN  LinkableChild(line) =>
                    \A t \in UserTextsOf(files[file_idx], line.parentUuid) :
                        \A k \in NewEntries :
                            Core(all_entries'[k]) = Core(_map_to_usage_entry(line))
                                => /\ all_entries'[k].text = t
                                   /\ ~Truthy(line.keyword)
                                          => all_entries'[k].keyword = DeriveKeyword(t)]_vars

\* C19 witness: a returned entry of an assistant record carries the text of
\* its parent user record, which stands two or more lines away in the file,
\* before it or after it, and differs from the record's own text.
C19_Witness ==
    /\ Returned
    /\ \E f \in 1..Len(files), i \in 1..MaxLinkLines + 1, j \in 1..MaxLinkLines + 1 :
          /\ f \notin failed_files
          /\ i <= Len(files[f]) /\ j <= Len(files[f])
          /\ (j >= i + 2 \/ i >= j + 2)
          /\ LinkableChild(files[f][j])
          /\ ~Truthy(files[f][j].keyword)
          /\ UserTextsOf(<<files[f][i]>>, files[f][j].parentUuid) # {}
          /\ \E k \in Entries :
                /\ Core(all_entries[k]) = Core(_map_to_usage_entry(files[f][j]))
                /\ {all_entries[k].text} = UserTextsOf(<<files[f][i]>>, files[f][j].parentUuid)
                /\ all_entries[k].text # _map_to_usage_entry(files[f][j]).text
                /\ all_entries[k].keyword = DeriveKeyword(all_entries[k].text)

\* C20: the table of user texts is per file: an assistant record whose
\* parentUuid is the uuid of a user record of another file only is not
\* linked to that text; its entry keeps the record's own text and keyword.
C20_NoLinkAcrossFiles ==
    [][FileStep =>
        \A i \in 1..Len(files[file_idx]) :
            LET line == files[file_idx][i]
            IN  (/\ LinkableChild(line)
                 /\ UserTextsOf(files[file_idx], line.parentUuid) = {}
                 /\ \E g \in 1..Len(files) :
                       g # file_idx /\ UserTextsOf(files[g], line.parentUuid) # {})
                    => \A k \in NewEntries :
                           Core(all_entries'[k]) = Core(_map_to_usage_entry(line))
                               => /\ all_entries'[k].text = _map_to_usage_entry(line).text
                                  /\ all_entries'[k].keyword = _map_to_usage_entry(line).keyword]_vars

\* C20 witness: a returned entry of an assistant record whose parent user
\* record stands in an earlier file only; the entry carries the record's own
\* text, not the user's.
C20_Witness ==
    /\ Returned
    /\ \E f \in 1..Len(files), g \in 1..Len(files), j \in 1..MaxLinkLines + 1 :
          /\ g < f
          /\ f \notin failed_files /\ g \notin failed_files
          /\ j <= Len(files[f])
          /\ LinkableChild(files[f][j])
          /\ UserTextsOf(files[f], files[f][j].parentUuid) = {}
          /\ UserTextsOf(files[g], files[f][j].parentUuid) # {}
          /\ \E k \in Entries :
                /\ Core(all_entries[k]) = Core(_map_to_usage_entry(files[f][j]))
                /\ all_entries[k].text = _map_to_usage_entry(files[f][j]).text
                /\ all_entries[k].text \notin UserTextsOf(files[g], files[f][j].parentUuid)

(***************************************************************************)
(* Properties of the keyword (checked under KeywordSpec).                  *)
(***************************************************************************)
\* C14: the keyword of every returned entry is absent or at most 40
\* characters long, given on the record or derived from text.
C14_KeywordAtMost40 ==
    Returned => \A k \in Entries : Len(all_entries[k].keyword) <= 40

Ellipsis == <<".", ".", ".">>

\* kw is the keyword the text gives: the words joined by single spaces when
\* there are at most 5, the first 3 words when there are more; cut to its
\* first 37 characters and the ellipsis when longer than 40
DerivedFrom(text, kw) ==
    LET words == Split(text)
        base == IF Len(words) <= 5 THEN Join(words)
                ELSE words[1] \o <<" ">> \o words[2] \o <<" ">> \o words[3]
    IN  IF Len(base) <= 40 THEN kw = base
        ELSE /\ Len(kw) = 40
             /\ SubSeq(kw, 1, 37) = SubSeq(base, 1, 37)
             /\ SubSeq(kw, 38, 40) = Ellipsis

\* C15: the entry of a record with text and no explicit keyword carries the
\* keyword derived from the text: the whole text if it has at most 5 words,
\* its first 3 words if it has more, and 37 characters plus a 3-character
\* ellipsis (40 in all) if that is longer than 40.
C15_DerivedKeyword ==
    Returned =>
        \A p \in Positions, k \in Entries :
            (/\ Billable(LineAt(p))
             /\ ~Truthy(LineAt(p).keyword)
             /\ Core(all_entries[k]) = Core(_map_to_usage_entry(LineAt(p)))
             /\ Truthy(all_entries[k].text))
                => DerivedFrom(all_entries[k].text, all_entries[k].keyword)

\* C15 witness: a returned entry whose text has more than 5 words and whose
\* keyword, derived from the first 3, was cut to 40 characters.
C15_Witness ==
    /\ Returned
    /\ \E p \in Positions, k \in Entries :
          /\ Billable(LineAt(p))
          /\ ~Truthy(LineAt(p).keyword)
          /\ Core(all_entries[k]) = Core(_map_to_usage_entry(LineAt(p)))
          /\ Len(Split(all_entries[k].text)) > 5
          /\ Len(all_entries[k].keyword) = 40
          /\ SubSeq(all_entries[k].keyword, 38, 40) = Ellipsis

(***************************************************************************)
(* Properties of the overlay (checked under OverlaySpec).                  *)
(***************************************************************************)
\* C17: every message the overlay shows carries its global number, its
\* 1-based position in the full sorted list of entries, whatever the number
\* of entries (fewer than N included) and whichever N was selected.
C17_GlobalNumbering ==
    (overlay.pc = "drawn" /\ ~overlay.empty) =>
        \A i \in 1..Len(overlay.recent) :
            /\ overlay.recent[i].idx \in 1..Len(all_entries)
            /\ all_entries[overlay.recent[i].idx] = overlay.recent[i].e

(***************************************************************************)
(* The round trip (checked under RoundTripSpec).                           *)
(***************************************************************************)
\* the returned entries that carry the id pair of the appended entry
WithAppendedPair ==
    {k \in Entries : /\ all_entries[k].message_id = app.entry.message_id
                     /\ all_entries[k].request_id = app.entry.request_id}

\* C13: after a successful append of an entry with both ids and a non-zero
\* token count, appended once or more, the load over the directory of the
\* log returns exactly one entry with that id pair, and its timestamp,
\* model, token counts, ids and keyword are those that were appended.
C13_RoundTrip ==
    Returned =>
        /\ Cardinality(WithAppendedPair) = 1
        /\ \A k \in WithAppendedPair :
              /\ all_entries[k].timestamp = app.timestamp.t
              /\ all_entries[k].model = app.entry.model
              /\ <<all_entries[k].input_tokens, all_entries[k].output_tokens,
                   all_entries[k].cache_creation_tokens, all_entries[k].cache_read_tokens>>
                     = app.entry.tokens
              /\ all_entries[k].keyword = app.entry.keyword

(***************************************************************************)
(* The append target and the patch target (checked under WriterSpec).      *)
(***************************************************************************)
\* the patch was called for the appended id after log_usage_entry, with
\* default path resolution, had returned True, and has resolved its path
PatchFollowsAppend ==
    /\ app.pc = "done"
    /\ app.result = "true"
    /\ app.log_path.kind = "default"
    /\ pat.pc = "read"
    /\ pat.message_id = app.entry.message_id
    /\ \E i \in Indices(LinesOf(hist.before, app.path)) :
          LinesOf(hist.before, app.path)[i] = Dumps(app.entry)

\* what the read loop of the patch makes of the file it opens
PatchReadOutcome ==
    ReadAll(disk[pat.path].lines, 1, pat.message_id, pat.keyword,
            [raised |-> FALSE, lines |-> <<>>, found |-> FALSE])

\* C21: with default path resolution, whatever files and parent directories
\* exist, a patch for id m that follows a successful append of m opens the
\* file the append wrote, and its read finds m.
C21_PatchFindsAppended ==
    PatchFollowsAppend =>
        /\ pat.path = app.path
        /\ ~PatchReadOutcome.raised
        /\ PatchReadOutcome.found

(***************************************************************************)
(* The dedup key and the identity of a record (checked under KeySpec).     *)
(***************************************************************************)
\* the (message_id, request_id) pair of the entry a line maps to
PairOf(line) ==
    <<_map_to_usage_entry(line).message_id, _map_to_usage_entry(line).request_id>>

\* C22: two valid records whose (message_id, request_id) pairs differ have
\* different dedup keys and are both returned, whatever characters the ids
\* hold, the ':' separator included.
C22_DistinctPairsDistinctKeys ==
    Returned =>
        \A p \in Positions, q \in Positions :
            (/\ p # q
             /\ Billable(LineAt(p)) /\ Billable(LineAt(q))
             /\ _should_process_entry(LineAt(p), cutoff_time, {})
             /\ _should_process_entry(LineAt(q), cutoff_time, {})
             /\ PairOf(LineAt(p)) # PairOf(LineAt(q)))
                => /\ _create_unique_hash(LineAt(p)) # _create_unique_hash(LineAt(q))
                   /\ Emitted(LineAt(p))
                   /\ Emitted(LineAt(q))

====
